---------------------------- MODULE Spec2Model ----------------------------
(***************************************************************************)
(* A model of the GPT nutrition evaluator (src/nutrition_evaluator.py):    *)
(* the prompt catalog built from the nutrition records, the four JSON      *)
(* comparators, _score_response, _query_gpt and the run_evaluation loop.   *)
(*                                                                         *)
(* Numbers.  The program computes with Python floats.  The model keeps     *)
(* every float as a fixed-point integer counting ten-thousandths: 0.01 is  *)
(* 100, 19.8 is 198000, a score of 100.0 is 1000000.  Sums, differences    *)
(* and products by the integer factors 4, 9 and 7 are exact in this        *)
(* representation; the one division, (score / total_points) * 100,         *)
(* truncates at the fourth decimal (33.3333, 66.6666).  A model number is  *)
(* the value the program holds: the binary rounding that float() and       *)
(* json.loads apply to a decimal literal is not modelled, so two model     *)
(* numbers 100 apart stand for floats whose difference is the float 0.01.  *)
(***************************************************************************)
EXTENDS Integers, Sequences, FiniteSets, TLC

VARIABLES
    foods,               \* the records _load_nutrition_data returned
    evaluation_prompts,  \* self.evaluation_prompts
    results,             \* self.results
    pc,                  \* where run_evaluation stands
    idx,                 \* the loop index of run_evaluation (1-based)
    gpt_response,        \* the local gpt_response of the loop body
    scores,              \* the local scores of the loop body
    runs,                \* calls of run_evaluation so far
    slept,               \* seconds spent in time.sleep(1)
    call,                \* the last direct call of _score_response and its outcome
    report               \* what generate_report returned since run_evaluation last ran

vars == <<foods, evaluation_prompts, results, pc, idx, gpt_response, scores,
          runs, slept, call, report>>

-----------------------------------------------------------------------------
(* Bounds of the model.                                                    *)

\* How often run_evaluation is called on one evaluator.
MaxRuns == 1

-----------------------------------------------------------------------------
(* Fixed-point numbers.                                                    *)

\* abs(...) < 0.01 of _score_factual_accuracy, in ten-thousandths.
TolFactual == 100

\* abs(...) < 0.1 of _score_mathematical_computation, in ten-thousandths.
TolMath == 1000

\* 1.0 in ten-thousandths.
One == 100 * TolFactual

Abs(x) == IF x < 0 THEN -x ELSE x

-----------------------------------------------------------------------------
(* JSON values as json.loads builds them: None, bool, int/float, str, list *)
(* and dict.  A dict is a function from its keys to values; a key the dict *)
(* does not hold is outside its domain.                                    *)

Null == [t |-> "null"]
Bool(b) == [t |-> "bool", b |-> b]
Num(n) == [t |-> "num", n |-> n]
Str(s) == [t |-> "str", s |-> s]
List(items) == [t |-> "list", items |-> items]
Obj(m) == [t |-> "obj", m |-> m]

EmptyMap == [k \in {} |-> Null]
EmptyObj == Obj(EmptyMap)

\* isinstance(v, dict): the only JSON value with a .get method.
IsDict(v) == v.t = "obj"

\* The operands Python's v - <float> accepts: int, float and bool.
IsNumber(v) == v.t \in {"num", "bool"}

\* The number v stands for in arithmetic (True is 1, False is 0).
NumVal(v) == IF v.t = "num" THEN v.n ELSE IF v.b THEN One ELSE 0

\* d.get(key, default) of a dict d.
dict_get(d, key, default) == IF key \in DOMAIN d.m THEN d.m[key] ELSE default

\* The dict holding exactly the keys of f whose cell is not the marker
\* "absent": how the response sets below leave a key out.
Absent == [t |-> "absent"]
ObjOf(f) == Obj([k \in {q \in DOMAIN f : f[q] # Absent} |-> f[k]])

-----------------------------------------------------------------------------
(* Outcomes of a Python call: a returned value or a raised exception.      *)

Ret(v) == [exc |-> "none", value |-> v]
Raise(e) == [exc |-> e]
Raised(o) == o.exc # "none"

-----------------------------------------------------------------------------
(* The nutrition records.  A CSV row holds a name, a brand, a              *)
(* classification and one raw cell per nutrient column; a raw cell is      *)
(* empty, text that float() rejects, or a decimal number.                  *)

Nutrients == {"energy", "fat", "netCarbs", "protein", "sugar", "fiber",
              "sodium", "satFat", "transFat", "cholesterol", "alcohol"}

Empty == [raw |-> "empty"]
Junk == [raw |-> "text"]
Dec(n) == [raw |-> "number", v |-> n]

\* Lines 61-68: '' and None give 0.0, float(value) otherwise, 0.0 on ValueError.
ParseCell(c) == IF c.raw = "number" THEN c.v ELSE 0

\* One row of the DictReader, lines 55-76.
LoadRow(row) ==
    [name |-> row.name, brand |-> row.brand_name, category |-> row.classification,
     nutrients |-> [k \in DOMAIN row.cells |-> ParseCell(row.cells[k])]]

\* The data file: there with its rows, or not there (line 49).
CsvFile(rows) == [exists |-> TRUE, rows |-> rows]
NoFile == [exists |-> FALSE]

\* Lines 46-78: the records of the file, or FileNotFoundError.
_load_nutrition_data(file) ==
    IF ~file.exists THEN Raise("FileNotFoundError")
    ELSE Ret([r \in 1..Len(file.rows) |-> LoadRow(file.rows[r])])

\* A row whose nutrient columns are all empty except those given in `given`.
Row(name, class, given) ==
    [name |-> name, brand_name |-> "", classification |-> class,
     cells |-> [k \in Nutrients |-> IF k \in DOMAIN given THEN given[k] ELSE Empty]]

\* Names are sequences of words; `"Banana" in name` is the test that the
\* words of the pattern occur consecutively in the name.
Contains(name, pattern) ==
    \E s \in 0..(Len(name) - Len(pattern)) :
        \A j \in 1..Len(pattern) : name[s + j] = pattern[j]

BananaRow == Row(<<"Banana", "Raw">>, "Fruit",
    [energy |-> Dec(3710000), fat |-> Dec(1000), netCarbs |-> Dec(198000),
     fiber |-> Dec(27000), protein |-> Dec(17000), sugar |-> Dec(156000),
     sodium |-> Dec(10000), satFat |-> Dec(0), alcohol |-> Dec(0)])

\* A banana product whose fat and protein columns are empty in the source.
BananaChipsRow == Row(<<"Dried", "Banana", "Chips">>, "Snack",
    [energy |-> Dec(14500000), fat |-> Empty, netCarbs |-> Dec(580000),
     fiber |-> Dec(77000), protein |-> Junk, sugar |-> Dec(350000)])

SteakRow == Row(<<"Beef", "Rump", "Steak">>, "Meat",
    [energy |-> Dec(5200000), fat |-> Dec(55000), protein |-> Dec(210000),
     sodium |-> Dec(550000), satFat |-> Dec(22000), cholesterol |-> Dec(600000)])

CookieRow == Row(<<"Cookie", "Dough", "Ice", "Cream">>, "Dessert",
    [energy |-> Dec(11000000), fat |-> Dec(140000), netCarbs |-> Dec(310000),
     fiber |-> Dec(5000), protein |-> Dec(40000), sugar |-> Dec(250000),
     sodium |-> Dec(4500000), satFat |-> Dec(90000), transFat |-> Dec(3000)])

\* Plain oats: sugar, sodium and saturated fat under every threshold.
OatsRow == Row(<<"Rolled", "Oats">>, "Cereal",
    [energy |-> Dec(15900000), fat |-> Dec(69000), netCarbs |-> Dec(560000),
     fiber |-> Dec(101000), protein |-> Dec(132000), sugar |-> Dec(10000),
     sodium |-> Dec(20000), satFat |-> Dec(12000)])

WineRow == Row(<<"Red", "Wine">>, "Beverage",
    [energy |-> Dec(3550000), netCarbs |-> Dec(26000), protein |-> Dec(1000),
     sugar |-> Dec(6000), sodium |-> Dec(40000), alcohol |-> Dec(106000)])

\* Every nutrient column empty: all values load as 0.0.
WaterRow == Row(<<"Water">>, "Beverage", [energy |-> Empty])

\* The data files the evaluators of Spec and SpecScore are built from,
\* each a sequence of at least five rows (on a shorter one __init__
\* raises: _initialize_prompts reads foods[4] and foods[3] whatever
\* matches).
CsvFiles ==
    { <<OatsRow, BananaRow, WineRow, CookieRow, SteakRow>>,
      <<WaterRow, OatsRow, WineRow, OatsRow, WineRow>>,
      <<SteakRow, BananaChipsRow, BananaRow, WaterRow, CookieRow, OatsRow>>,
      <<WineRow, WaterRow, OatsRow, CookieRow, SteakRow>> }

\* The data files the run_evaluation specification starts from.
RunCsvFiles ==
    { <<OatsRow, BananaRow, WineRow, CookieRow, SteakRow>>,
      <<WaterRow, OatsRow, WineRow, OatsRow, WineRow>> }

-----------------------------------------------------------------------------
(* The prompt catalog, _initialize_prompts.  The prompt text is sent to    *)
(* the client only and is not modelled.                                    *)

\* next((food for food in foods if pattern in food["name"]), foods[fallback]),
\* with the 0-based fallback index of the source.  foods[fallback] is an
\* argument of next: it is evaluated before the search, and raises
\* IndexError on a shorter list whatever the search would find.
SelectFood(fs, pattern, fallback) ==
    LET hits == {r \in 1..Len(fs) : Contains(fs[r].name, pattern)}
    IN  IF fallback + 1 > Len(fs) THEN Raise("IndexError")
        ELSE IF hits # {}
        THEN Ret(fs[CHOOSE r \in hits : \A q \in hits : r <= q])
        ELSE Ret(fs[fallback + 1])

banana_data(fs) == SelectFood(fs, <<"Banana">>, 0)
steak_data(fs) == SelectFood(fs, <<"Rump", "Steak">>, 4)
processed_data(fs) == SelectFood(fs, <<"Cookie", "Dough">>, 3)

\* The 1A answer with the fiber left out of the carbohydrate total.
Expected1ANetCarbsOnly(fs) ==
    LET n == banana_data(fs).value.nutrients
    IN  [total_fat_g |-> n.fat,
         total_carbohydrates_g |-> n.netCarbs,
         carb_calculation |->
            [net_carbs |-> n.netCarbs, fiber |-> n.fiber, total |-> n.netCarbs]]

\* Lines 129-137.
Expected1A(fs) ==
    LET n == banana_data(fs).value.nutrients
    IN  [total_fat_g |-> n.fat,
         total_carbohydrates_g |-> n.netCarbs + n.fiber,
         carb_calculation |->
            [net_carbs |-> n.netCarbs, fiber |-> n.fiber,
             total |-> n.netCarbs + n.fiber]]

\* Lines 191-204.
Expected2A(fs) ==
    LET n == banana_data(fs).value.nutrients
    IN  [calculations |->
            [carbohydrates_cal |-> (n.netCarbs + n.fiber) * 4,
             protein_cal |-> n.protein * 4,
             fat_cal |-> n.fat * 9,
             alcohol_cal |-> n.alcohol * 7],
         calculated_total_cal |->
            (n.netCarbs + n.fiber) * 4 + n.protein * 4 + n.fat * 9 + n.alcohol * 7,
         given_energy_value |-> n.energy,
         comparison |-> [match |-> FALSE,
                         explanation |-> "Energy likely in kJ not kcal"]]

\* Lines 265-283.
Expected3A(fs) ==
    LET n == processed_data(fs).value.nutrients
    IN  [evaluations |->
            [type_2_diabetes |->
                [suitability |-> "poor", key_concerns |-> <<"sugar", "carbs">>,
                 specific_values |-> [sugar_g |-> n.sugar, carbs_g |-> n.netCarbs]],
             high_blood_pressure |->
                [suitability |-> "poor", key_concerns |-> <<"sodium">>,
                 specific_values |-> [sodium_mg |-> n.sodium]],
             high_cholesterol |->
                [suitability |-> "poor", key_concerns |-> <<"satFat", "transFat">>,
                 specific_values |-> [sat_fat_g |-> n.satFat,
                                      trans_fat_g |-> n.transFat]]]]

\* Lines 336-350.  The issue of the first error quotes fat + 10.0 and fat.
Expected4A(fs) ==
    LET n == steak_data(fs).value.nutrients
    IN  [errors_found |->
            << [field |-> "satFat",
                issue |-> <<"Saturated fat > total fat", n.fat + 10 * One, n.fat>>,
                why_problematic |-> "Saturated fat cannot exceed total fat - nutritionally impossible"],
               [field |-> "sodium",
                issue |-> <<"Negative sodium value (-5)">>,
                why_problematic |-> "Sodium content cannot be negative - invalid data"] >>,
         total_errors |-> 2 * One]

\* Lines 87-352 on the loaded records: the three selections in the order
\* of the source, then the four prompts in catalog order.
_initialize_prompts(fs) ==
    IF Raised(banana_data(fs)) THEN banana_data(fs)
    ELSE IF Raised(steak_data(fs)) THEN steak_data(fs)
    ELSE IF Raised(processed_data(fs)) THEN processed_data(fs)
    ELSE Ret(<< [id |-> "1A", category |-> "Factual Accuracy",
                 difficulty |-> "Basic", expected_answer |-> Expected1A(fs)],
                [id |-> "2A", category |-> "Mathematical Computation",
                 difficulty |-> "Intermediate", expected_answer |-> Expected2A(fs)],
                [id |-> "3A", category |-> "Health Recommendations",
                 difficulty |-> "Advanced", expected_answer |-> Expected3A(fs)],
                [id |-> "4A", category |-> "Error Detection",
                 difficulty |-> "Expert", expected_answer |-> Expected4A(fs)] >>)

-----------------------------------------------------------------------------
(* The comparators, lines 406-500.                                         *)

\* score * 100 without the division by total_points.
PercentNotDivided(score, total_points) == score * 100 * One

\* (score / total_points) * 100 as a fixed-point number.
Percent(score, total_points) == (score * 100 * One) \div total_points

\* The comparison with <= in place of <.
WithinInclusive(v, e, tol) == Abs(NumVal(v) - e) <= tol

\* abs(v - e) < tol for a number v.
Within(v, e, tol) == Abs(NumVal(v) - e) < tol

\* A criterion that fails a missing key outright instead of comparing 0.
CriterionAbsentFails(d, key, e, tol) ==
    IF key \notin DOMAIN d.m THEN Ret(0)
    ELSE IF ~IsNumber(d.m[key]) THEN Raise("TypeError")
    ELSE Ret(IF Abs(NumVal(d.m[key]) - e) < tol THEN 1 ELSE 0)

\* One `if abs(d.get(key, 0) - e) < tol` of lines 425-459: the point it
\* earns, or the TypeError of the subtraction.
Criterion(d, key, e, tol) ==
    LET v == dict_get(d, key, Num(0))
    IN  IF ~IsNumber(v) THEN Raise("TypeError")
        ELSE Ret(IF Within(v, e, tol) THEN 1 ELSE 0)

\* The chain with `or` in place of `and`: one matching field is enough.
RECURSIVE AnyCriteria(_, _, _, _)
AnyCriteria(d, keys, exp, tol) ==
    IF keys = <<>> THEN Ret(0)
    ELSE LET v == dict_get(d, Head(keys), Num(0))
         IN  IF ~IsNumber(v) THEN Raise("TypeError")
             ELSE IF Abs(NumVal(v) - exp[Head(keys)]) < tol THEN Ret(1)
             ELSE AnyCriteria(d, Tail(keys), exp, tol)

\* The `and` chain of lines 435-437: a criterion is evaluated only when
\* all before it held.
RECURSIVE AllCriteria(_, _, _, _)
AllCriteria(d, keys, exp, tol) ==
    IF keys = <<>> THEN Ret(1)
    ELSE LET c == Criterion(d, Head(keys), exp[Head(keys)], tol)
         IN  IF Raised(c) THEN c
             ELSE IF c.value = 0 THEN Ret(0)
             ELSE AllCriteria(d, Tail(keys), exp, tol)

\* The separate `if` statements of lines 451-456: each criterion is
\* evaluated, the first exception ends the call.
RECURSIVE SumCriteria(_, _, _, _)
SumCriteria(d, keys, exp, tol) ==
    IF keys = <<>> THEN Ret(0)
    ELSE LET c == Criterion(d, Head(keys), exp[Head(keys)], tol)
         IN  IF Raised(c) THEN c
             ELSE LET rest == SumCriteria(d, Tail(keys), exp, tol)
                  IN  IF Raised(rest) THEN rest ELSE Ret(c.value + rest.value)

CarbKeys == <<"net_carbs", "fiber", "total">>

\* Lines 419-440.
_score_factual_accuracy(response, expected) ==
    IF ~IsDict(response) THEN Raise("AttributeError")
    ELSE LET fat == Criterion(response, "total_fat_g", expected.total_fat_g, TolFactual)
             carbs == Criterion(response, "total_carbohydrates_g",
                                expected.total_carbohydrates_g, TolFactual)
             calc == dict_get(response, "carb_calculation", EmptyObj)
             structure == AllCriteria(calc, CarbKeys, expected.carb_calculation, TolFactual)
         IN  IF Raised(fat) THEN fat
             ELSE IF Raised(carbs) THEN carbs
             ELSE IF ~IsDict(calc) THEN Raise("AttributeError")
             ELSE IF Raised(structure) THEN structure
             ELSE Ret(Percent(fat.value + carbs.value + structure.value, 3))

\* The per-macronutrient criteria with alcohol_cal scored as a fourth.
MacroKeysWithAlcohol == <<"carbohydrates_cal", "protein_cal", "fat_cal", "alcohol_cal">>

MacroKeys == <<"carbohydrates_cal", "protein_cal", "fat_cal">>

\* Lines 442-462.
_score_mathematical_computation(response, expected) ==
    IF ~IsDict(response) THEN Raise("AttributeError")
    ELSE LET calcs == dict_get(response, "calculations", EmptyObj)
             macros == SumCriteria(calcs, MacroKeys, expected.calculations, TolMath)
             total == Criterion(response, "calculated_total_cal",
                                expected.calculated_total_cal, TolMath)
         IN  IF ~IsDict(calcs) THEN Raise("AttributeError")
             ELSE IF Raised(macros) THEN macros
             ELSE IF Raised(total) THEN total
             ELSE Ret(Percent(macros.value + total.value, 4))

Conditions == <<"type_2_diabetes", "high_blood_pressure", "high_cholesterol">>

\* The label comparison made case-insensitive.
EqualsLabelIgnoreCase(v, label) ==
    v.t = "str" /\ (IF v.s = "Poor" THEN "poor" ELSE v.s) = label

\* v == label for a JSON value v and a str label.
EqualsLabel(v, label) == v.t = "str" /\ v.s = label

\* One pass of the loop of lines 473-476.
ConditionPoint(evals, exp_evals, condition) ==
    LET entry == dict_get(evals, condition, EmptyObj)
    IN  IF ~IsDict(entry) THEN Raise("AttributeError")
        ELSE Ret(IF EqualsLabel(dict_get(entry, "suitability", Null),
                                exp_evals[condition].suitability)
                 THEN 1 ELSE 0)

RECURSIVE SumConditions(_, _, _)
SumConditions(evals, exp_evals, conds) ==
    IF conds = <<>> THEN Ret(0)
    ELSE LET c == ConditionPoint(evals, exp_evals, Head(conds))
         IN  IF Raised(c) THEN c
             ELSE LET rest == SumConditions(evals, exp_evals, Tail(conds))
                  IN  IF Raised(rest) THEN rest ELSE Ret(c.value + rest.value)

\* Lines 464-478.
_score_health_recommendations(response, expected) ==
    IF ~IsDict(response) THEN Raise("AttributeError")
    ELSE LET evals == dict_get(response, "evaluations", EmptyObj)
             matches == SumConditions(evals, expected.evaluations, Conditions)
         IN  IF ~IsDict(evals) THEN Raise("AttributeError")
             ELSE IF Raised(matches) THEN matches
             ELSE Ret(Percent(matches.value, 3))

\* v == n for a JSON value v and a number n (True == 1, "2" # 2).
EqualsNumber(v, n) == IsNumber(v) /\ NumVal(v) = n

\* The values a set can hold: None, bool, numbers and str.
Hashable(v) == v.t \in {"null", "bool", "num", "str"}

\* {error.get("field") for error in errors_found}, line 492, for a list:
\* the set, or the exception of the first entry that has no .get or whose
\* field cannot be hashed.
RECURSIVE FieldsOf(_)
FieldsOf(items) ==
    IF items = <<>> THEN Ret({})
    ELSE IF ~IsDict(Head(items)) THEN Raise("AttributeError")
    ELSE LET f == dict_get(Head(items), "field", Null)
         IN  IF ~Hashable(f) THEN Raise("TypeError")
             ELSE LET rest == FieldsOf(Tail(items))
                  IN  IF Raised(rest) THEN rest ELSE Ret({f} \cup rest.value)

\* The field names of at most the first two entries of a list: entries
\* beyond the expected number of errors are not read.
FoundFieldsCapped(errors_found) ==
    CASE errors_found.t = "list" ->
            FieldsOf(SubSeq(errors_found.items, 1,
                            IF Len(errors_found.items) < 2
                            THEN Len(errors_found.items) ELSE 2))
      [] errors_found.t \in {"null", "num", "bool"} -> Raise("TypeError")
      [] errors_found.t = "str" ->
            IF errors_found.s = "" THEN Ret({}) ELSE Raise("AttributeError")
      [] errors_found.t = "obj" ->
            IF DOMAIN errors_found.m = {} THEN Ret({}) ELSE Raise("AttributeError")

\* Line 492 for whatever errors_found holds: a list is walked, None, a
\* number and a bool cannot be iterated, a str yields characters and a dict
\* its keys, neither of which has .get.
found_fields(errors_found) ==
    CASE errors_found.t = "list" -> FieldsOf(errors_found.items)
      [] errors_found.t \in {"null", "num", "bool"} -> Raise("TypeError")
      [] errors_found.t = "str" ->
            IF errors_found.s = "" THEN Ret({}) ELSE Raise("AttributeError")
      [] errors_found.t = "obj" ->
            IF DOMAIN errors_found.m = {} THEN Ret({}) ELSE Raise("AttributeError")

\* Lines 480-500.
_score_error_detection(response, expected) ==
    IF ~IsDict(response) THEN Raise("AttributeError")
    ELSE LET count == IF EqualsNumber(dict_get(response, "total_errors", Null),
                                      expected.total_errors)
                      THEN 1 ELSE 0
             found == found_fields(dict_get(response, "errors_found", List(<<>>)))
         IN  IF Raised(found) THEN found
             ELSE Ret(Percent(count
                              + (IF Str("satFat") \in found.value THEN 1 ELSE 0)
                              + (IF Str("sodium") \in found.value THEN 1 ELSE 0), 3))

\* Lines 406-417.
_compare_json_accuracy(response, expected, prompt_id) ==
    CASE prompt_id = "1A" -> _score_factual_accuracy(response, expected)
      [] prompt_id = "2A" -> _score_mathematical_computation(response, expected)
      [] prompt_id = "3A" -> _score_health_recommendations(response, expected)
      [] prompt_id = "4A" -> _score_error_detection(response, expected)
      [] OTHER -> Ret(0)

-----------------------------------------------------------------------------
(* Response texts.  A text is a JSON document, a JSON document with        *)
(* whitespace around it, a JSON document inside a Markdown code fence,     *)
(* free prose, the empty string, or the "Error: ..." text of _query_gpt.   *)

JsonText(doc) == [kind |-> "json", doc |-> doc]
PaddedText(doc) == [kind |-> "padded", doc |-> doc]
FencedText(doc) == [kind |-> "fenced", doc |-> doc]
ProseText == [kind |-> "prose"]
EmptyText == [kind |-> "empty"]
ErrorText(msg) == [kind |-> "error", msg |-> msg]

\* str.strip(): only the padded document changes.
strip(text) == IF text.kind = "padded" THEN JsonText(text.doc) ELSE text

\* json.loads: the document, or JSONDecodeError for a text that is not
\* one JSON document (a fence, prose, "", "Error: ...").
json_loads(text) ==
    IF text.kind \in {"json", "padded"} THEN Ret(text.doc)
    ELSE Raise("JSONDecodeError")

AllScores(v) ==
    [accuracy |-> v, reasoning |-> v, completeness |-> v, practical |-> v,
     total |-> v]

\* _score_response without its except clause: the error of json.loads
\* leaves the call.
ScoreResponseNoExcept(prompt_data, response_text) ==
    LET response_json == json_loads(strip(response_text))
    IN  IF Raised(response_json) THEN response_json
        ELSE LET accuracy_score ==
                    _compare_json_accuracy(response_json.value,
                                           prompt_data.expected_answer,
                                           prompt_data.id)
             IN  IF Raised(accuracy_score) THEN accuracy_score
                 ELSE Ret(AllScores(accuracy_score.value))

\* A scorer with hidden state: a text the result list already holds is
\* scored 0 without being compared.
ScoreResponseSeesResults(prompt_data, response_text) ==
    LET response_json == json_loads(strip(response_text))
    IN  IF response_json.exc = "JSONDecodeError" THEN Ret(AllScores(0))
        ELSE IF \E j \in 1..Len(results) : results[j].gpt_response = response_text
             THEN Ret(AllScores(0))
        ELSE LET accuracy_score ==
                    _compare_json_accuracy(response_json.value,
                                           prompt_data.expected_answer,
                                           prompt_data.id)
             IN  IF Raised(accuracy_score) THEN accuracy_score
                 ELSE Ret(AllScores(accuracy_score.value))

\* Lines 376-404: only json.JSONDecodeError is caught.
_score_response(prompt_data, response_text) ==
    LET response_json == json_loads(strip(response_text))
    IN  IF response_json.exc = "JSONDecodeError" THEN Ret(AllScores(0))
        ELSE LET accuracy_score ==
                    _compare_json_accuracy(response_json.value,
                                           prompt_data.expected_answer,
                                           prompt_data.id)
             IN  IF Raised(accuracy_score) THEN accuracy_score
                 ELSE Ret(AllScores(accuracy_score.value))

-----------------------------------------------------------------------------
(* The responses the model may give.  Each scored field is left out, null, *)
(* a string, zero, or a number at, just inside or on the tolerance around  *)
(* the expected value; unscored fields are present or not.                 *)

\* The longest errors_found list of a response.
MaxErrors == 2

TopCells(e, tol) ==
    {Absent, Null, Str("n/a"), Num(0)}
        \cup {Num(e + d) : d \in {0 - tol, 1 - tol, 0, tol - 1, tol}}

NestedCells(e, tol) ==
    {Absent, Null, Num(e), Num(e + tol - 1), Num(e + tol), Num(e - tol)}

\* Documents that are not a JSON object.
NonDictDocs == {Null, Bool(TRUE), Num(42 * One), Str("ok"), List(<<>>)}

\* What a field that should hold an object holds instead.
NonDictCells == {Null, Str("n/a"), Num(One), List(<<>>)}

Docs1A(e) ==
    LET calcs == {Absent} \cup NonDictCells \cup
                 { ObjOf([net_carbs |-> a, fiber |-> b, total |-> c]) :
                     a \in NestedCells(e.carb_calculation.net_carbs, TolFactual),
                     b \in NestedCells(e.carb_calculation.fiber, TolFactual),
                     c \in NestedCells(e.carb_calculation.total, TolFactual) }
    IN  NonDictDocs \cup
        { ObjOf([total_fat_g |-> a, total_carbohydrates_g |-> b,
                 carb_calculation |-> c]) :
            a \in TopCells(e.total_fat_g, TolFactual),
            b \in TopCells(e.total_carbohydrates_g, TolFactual),
            c \in calcs }

Docs2A(e) ==
    LET calcs == {Absent} \cup NonDictCells \cup
                 { ObjOf([carbohydrates_cal |-> a, protein_cal |-> b,
                          fat_cal |-> c, alcohol_cal |-> d]) :
                     a \in NestedCells(e.calculations.carbohydrates_cal, TolMath),
                     b \in NestedCells(e.calculations.protein_cal, TolMath),
                     c \in NestedCells(e.calculations.fat_cal, TolMath),
                     d \in {Absent, Num(e.calculations.alcohol_cal),
                            Str("7 kcal/g")} }
        extras == { [given_energy_value |-> g, comparison |-> c] :
                     g \in {Absent, Num(e.given_energy_value)},
                     c \in {Absent,
                            Obj([match |-> Bool(TRUE), explanation |-> Str("same")])} }
    IN  NonDictDocs \cup
        { ObjOf([calculations |-> a, calculated_total_cal |-> b,
                 given_energy_value |-> x.given_energy_value,
                 comparison |-> x.comparison]) :
            a \in calcs, b \in TopCells(e.calculated_total_cal, TolMath),
            x \in extras }

Labels == {Absent, Null, Num(One), Str("poor"), Str("fair"), Str("good"), Str("Poor")}

Docs3A(e) ==
    LET entries == {Absent, Null, Str("poor")} \cup
                   { ObjOf([suitability |-> l, key_concerns |-> x.concerns,
                            specific_values |-> x.values]) :
                       l \in Labels,
                       x \in {[concerns |-> Absent, values |-> Absent],
                              [concerns |-> List(<<Str("sugar")>>),
                               values |-> Obj([sugar_g |-> Num(0)])]} }
        evals == {Absent} \cup NonDictCells \cup
                 { ObjOf([type_2_diabetes |-> a, high_blood_pressure |-> b,
                          high_cholesterol |-> c]) :
                     a \in entries, b \in entries, c \in entries }
    IN  NonDictDocs \cup { ObjOf([evaluations |-> v]) : v \in evals }

\* The entries of an errors_found list.
ErrorEntries ==
    { Obj([field |-> Str("satFat"), issue |-> Str("exceeds total fat"),
           why_problematic |-> Str("impossible")]),
      Obj([field |-> Str("sodium")]),
      Obj([field |-> Str("potassium")]),
      Obj([issue |-> Str("negative value")]),
      Obj([field |-> Null]),
      Obj([field |-> List(<<Str("satFat")>>)]),
      Str("satFat") }

SeqsUpTo(S, n) == UNION { [1..k -> S] : k \in 0..n }

Docs4A(e) ==
    LET counts == {Absent, Null, Str("2"), Bool(TRUE)} \cup
                  {Num(e.total_errors + d) : d \in {0 - One, 0, One}}
        found == {Absent, Null, Num(2 * One), Str(""), Str("satFat"), EmptyObj,
                  Obj([satFat |-> Str("exceeds total fat")])}
                 \cup {List(l) : l \in SeqsUpTo(ErrorEntries, MaxErrors)}
    IN  NonDictDocs \cup
        { ObjOf([errors_found |-> f, total_errors |-> c]) :
            f \in found, c \in counts }

Docs(prompt) ==
    CASE prompt.id = "1A" -> Docs1A(prompt.expected_answer)
      [] prompt.id = "2A" -> Docs2A(prompt.expected_answer)
      [] prompt.id = "3A" -> Docs3A(prompt.expected_answer)
      [] prompt.id = "4A" -> Docs4A(prompt.expected_answer)

\* The response that repeats the expected answer.
Perfect(prompt) ==
    LET e == prompt.expected_answer
    IN  CASE prompt.id = "1A" ->
                Obj([total_fat_g |-> Num(e.total_fat_g),
                     total_carbohydrates_g |-> Num(e.total_carbohydrates_g),
                     carb_calculation |->
                        Obj([net_carbs |-> Num(e.carb_calculation.net_carbs),
                             fiber |-> Num(e.carb_calculation.fiber),
                             total |-> Num(e.carb_calculation.total)])])
          [] prompt.id = "2A" ->
                Obj([calculations |->
                        Obj([carbohydrates_cal |-> Num(e.calculations.carbohydrates_cal),
                             protein_cal |-> Num(e.calculations.protein_cal),
                             fat_cal |-> Num(e.calculations.fat_cal),
                             alcohol_cal |-> Num(e.calculations.alcohol_cal)]),
                     calculated_total_cal |-> Num(e.calculated_total_cal),
                     given_energy_value |-> Num(e.given_energy_value)])
          [] prompt.id = "3A" ->
                Obj([evaluations |->
                        Obj([c \in {"type_2_diabetes", "high_blood_pressure",
                                    "high_cholesterol"} |->
                                Obj([suitability |->
                                        Str(e.evaluations[c].suitability)])])])
          [] prompt.id = "4A" ->
                Obj([errors_found |->
                        List(<<Obj([field |-> Str("sodium")]),
                               Obj([field |-> Str("satFat"),
                                    issue |-> Str("exceeds total fat"),
                                    why_problematic |-> Str("impossible")])>>),
                     total_errors |-> Num(e.total_errors)])

\* A response that earns part of the points.
Partial(prompt) ==
    LET e == prompt.expected_answer
    IN  CASE prompt.id = "1A" ->
                Obj([total_fat_g |-> Num(e.total_fat_g + TolFactual - 1),
                     total_carbohydrates_g |-> Num(e.total_carbohydrates_g + TolFactual)])
          [] prompt.id = "2A" ->
                Obj([calculated_total_cal |-> Num(e.calculated_total_cal)])
          [] prompt.id = "3A" ->
                Obj([evaluations |->
                        Obj([type_2_diabetes |-> Obj([suitability |-> Str("poor")]),
                             high_blood_pressure |-> Obj([suitability |-> Str("fair")]),
                             high_cholesterol |-> Obj([suitability |-> Str("poor")])])])
          [] prompt.id = "4A" ->
                Obj([errors_found |-> List(<<Obj([field |-> Str("sodium")])>>),
                     total_errors |-> Num(e.total_errors)])

\* The texts _score_response is called with.
Texts(prompt) ==
    {JsonText(d) : d \in Docs(prompt)}
        \cup {PaddedText(Perfect(prompt)), FencedText(Perfect(prompt)),
              ProseText, EmptyText, ErrorText("timeout")}

-----------------------------------------------------------------------------
(* The client, _query_gpt (lines 354-374).  The API call returns a message *)
(* content, returns a message whose content is None, or raises.            *)

ApiContent(text) == [api |-> "content", content |-> text]
ApiNoContent == [api |-> "none"]
ApiRaises(msg) == [api |-> "raises", msg |-> msg]

\* The text _query_gpt returns: content.strip(), or "Error: " + str(e) for
\* an exception of the call or of None.strip().
_query_gpt(reply) ==
    CASE reply.api = "content" -> strip(reply.content)
      [] reply.api = "none" ->
            ErrorText("'NoneType' object has no attribute 'strip'")
      [] reply.api = "raises" -> ErrorText(reply.msg)

\* What the API does when run_evaluation queries it for a prompt.
Replies(prompt) ==
    { ApiContent(PaddedText(Perfect(prompt))),
      ApiContent(JsonText(Partial(prompt))),
      ApiContent(JsonText(List(<<>>))),
      ApiNoContent,
      ApiRaises("timeout") }

-----------------------------------------------------------------------------
(* The evaluator.                                                          *)

NoText == [kind |-> "unset"]
NoScores == [unset |-> TRUE]
NoCall == [made |-> FALSE]
NoReport == [made |-> FALSE]

NumPrompts == Len(evaluation_prompts)

\* Lines 516-529.  prompt_text and execution_time are stored as given and
\* read by no scoring step; they are left out.
EvaluationResult(prompt_data, response_text, s) ==
    [prompt_id |-> prompt_data.id,
     category |-> prompt_data.category,
     difficulty |-> prompt_data.difficulty,
     gpt_response |-> response_text,
     expected_answer |-> prompt_data.expected_answer,
     accuracy_score |-> s.accuracy,
     reasoning_score |-> s.reasoning,
     completeness_score |-> s.completeness,
     practical_score |-> s.practical,
     total_score |-> s.total]

\* [r.total_score for r in self.results], line 542.
total_scores(rs) == [j \in 1..Len(rs) |-> rs[j].total_score]

RECURSIVE sum(_)
sum(xs) == IF xs = <<>> THEN 0 ELSE Head(xs) + sum(Tail(xs))

\* The sum of the scores, not divided by their number.
MeanNotDivided(xs) == sum(xs)

\* statistics.mean of a non-empty list, to the nearest ten-thousandth.
mean(xs) == (2 * sum(xs) + Len(xs)) \div (2 * Len(xs))

max(xs) == CHOOSE x \in {xs[j] : j \in 1..Len(xs)} : \A k \in 1..Len(xs) : xs[k] <= x
min(xs) == CHOOSE x \in {xs[j] : j \in 1..Len(xs)} : \A k \in 1..Len(xs) : x <= xs[k]

\* The number f"{x:.1f}" prints, in tenths: x rounded to one decimal, a
\* half going to the even digit (33.3333 prints 33.3, 66.6666 prints 66.7,
\* 6.25 prints 6.2).
Format1(x) ==
    LET q == x \div 1000
        r == x % 1000
    IN  IF r > 500 \/ (r = 500 /\ q % 2 = 1) THEN q + 1 ELSE q

\* Lines 537-575: the sentinel for no results, else the report with its
\* prompt count, its three summary figures and one entry per result.  The
\* model name, the date, the times and the quoted JSON are printed as
\* given and left out.
generate_report(rs) ==
    IF rs = <<>> THEN [made |-> TRUE, text |-> "No results available"]
    ELSE [made |-> TRUE,
          text |-> "# GPT Nutrition Evaluation Report",
          total_prompts |-> Len(rs),
          average |-> Format1(mean(total_scores(rs))),
          best |-> Format1(max(total_scores(rs))),
          worst |-> Format1(min(total_scores(rs))),
          details |-> [j \in 1..Len(rs) |->
                          [prompt_id |-> rs[j].prompt_id,
                           category |-> rs[j].category,
                           score |-> Format1(rs[j].total_score)]]]

\* __init__, lines 40-44, on the data file `rows`.
Constructed(rows) ==
    /\ foods = _load_nutrition_data(CsvFile(rows)).value
    /\ evaluation_prompts = _initialize_prompts(foods).value
    /\ results = <<>>
    /\ pc = "idle"
    /\ idx = 0
    /\ gpt_response = NoText
    /\ scores = NoScores
    /\ runs = 0
    /\ slept = 0
    /\ call = NoCall
    /\ report = NoReport

Init == \E rows \in RunCsvFiles : Constructed(rows)

\* run_evaluation is called (line 502) and enters its loop at the first prompt.
CallRunEvaluation ==
    /\ pc \in {"idle", "raised"}
    /\ runs < MaxRuns
    /\ runs' = runs + 1
    /\ idx' = 1
    /\ pc' = "query"
    /\ report' = NoReport
    /\ UNCHANGED <<foods, evaluation_prompts, results, gpt_response, scores,
                   slept, call>>

\* Line 510.
Query ==
    /\ pc = "query"
    /\ \E reply \in Replies(evaluation_prompts[idx]) :
          gpt_response' = _query_gpt(reply)
    /\ pc' = "score"
    /\ UNCHANGED <<foods, evaluation_prompts, results, idx, scores, runs,
                   slept, call, report>>

\* Line 513: the scores, or the exception leaving run_evaluation.
Score ==
    /\ pc = "score"
    /\ LET o == _score_response(evaluation_prompts[idx], gpt_response)
       IN  IF Raised(o)
           THEN /\ pc' = "raised"
                /\ scores' = NoScores
                /\ gpt_response' = NoText
                /\ idx' = 0
           ELSE /\ pc' = "append"
                /\ scores' = o.value
                /\ UNCHANGED <<gpt_response, idx>>
    /\ UNCHANGED <<foods, evaluation_prompts, results, runs, slept, call, report>>

\* Lines 516-531.
AppendResult ==
    /\ pc = "append"
    /\ results' = Append(results,
                         EvaluationResult(evaluation_prompts[idx], gpt_response, scores))
    /\ pc' = "sleep"
    /\ gpt_response' = NoText
    /\ scores' = NoScores
    /\ UNCHANGED <<foods, evaluation_prompts, idx, runs, slept, call, report>>

\* Line 532, then the next prompt or the return of line 535.
Sleep ==
    /\ pc = "sleep"
    /\ slept' = slept + 1
    /\ IF idx < NumPrompts
       THEN idx' = idx + 1 /\ pc' = "query"
       ELSE idx' = 0 /\ pc' = "idle"
    /\ UNCHANGED <<foods, evaluation_prompts, results, gpt_response, scores,
                   runs, call, report>>

\* generate_report is called while run_evaluation is not running: before
\* it, after its return, or after an exception ended it.
GenerateReport ==
    /\ pc \in {"idle", "raised"}
    /\ report' = generate_report(results)
    /\ UNCHANGED <<foods, evaluation_prompts, results, pc, idx, gpt_response,
                   scores, runs, slept, call>>

Next ==
    CallRunEvaluation \/ Query \/ Score \/ AppendResult \/ Sleep \/ GenerateReport

Spec == Init /\ [][Next]_vars

-----------------------------------------------------------------------------
(* _score_response called directly, once, on any prompt of the catalog and *)
(* any text.                                                               *)

InitScore == \E rows \in CsvFiles : Constructed(rows)

ScoreCall ==
    /\ ~call.made
    /\ \E k \in 1..NumPrompts :
         \E text \in Texts(evaluation_prompts[k]) :
            call' = [made |-> TRUE,
                     prompt |-> evaluation_prompts[k],
                     text |-> text,
                     out |-> _score_response(evaluation_prompts[k], text)]
    /\ UNCHANGED <<foods, evaluation_prompts, results, pc, idx, gpt_response,
                   scores, runs, slept, report>>

NextScore == ScoreCall

SpecScore == InitScore /\ [][NextScore]_vars

-----------------------------------------------------------------------------
(* The construction of an evaluator, __init__, on any data file.           *)

\* The longest data file of the construction specification.
MaxRows == 5

BuildRows == {BananaRow, BananaChipsRow, SteakRow, CookieRow, OatsRow, WineRow}

BuildCsvFiles == {CsvFile(rows) : rows \in SeqsUpTo(BuildRows, MaxRows)} \cup {NoFile}

InitBuild ==
    /\ foods = <<>>
    /\ evaluation_prompts = <<>>
    /\ results = <<>>
    /\ pc = "new"
    /\ idx = 0
    /\ gpt_response = NoText
    /\ scores = NoScores
    /\ runs = 0
    /\ slept = 0
    /\ call = NoCall
    /\ report = NoReport

\* Lines 40-44 and 84-89: the records are loaded, the three foods are
\* selected and the catalog is built; an exception of the load or of a
\* selection leaves __init__, and pc names it.
Construct ==
    /\ pc = "new"
    /\ \E file \in BuildCsvFiles :
          LET loaded == _load_nutrition_data(file)
              built == _initialize_prompts(loaded.value)
          IN  IF Raised(loaded)
              THEN pc' = loaded.exc /\ UNCHANGED <<foods, evaluation_prompts>>
              ELSE /\ foods' = loaded.value
                   /\ IF Raised(built)
                      THEN pc' = built.exc /\ UNCHANGED evaluation_prompts
                      ELSE pc' = "idle" /\ evaluation_prompts' = built.value
    /\ UNCHANGED <<results, idx, gpt_response, scores, runs, slept, call, report>>

NextBuild == Construct

SpecBuild == InitBuild /\ [][NextBuild]_vars

-----------------------------------------------------------------------------
(* Vocabulary of the properties below.                                     *)

\* The text parses as one JSON document.
Parses(text) == ~Raised(json_loads(text))

\* The direct call was made on prompt `id` and returned scores.
ReturnedOn(id) == call.made /\ call.prompt.id = id /\ ~Raised(call.out)

\* The parsed response and the expected answer of the direct call.
CallDoc == json_loads(call.text).value
CallExpected == call.prompt.expected_answer
CallTotal == call.out.value.total

Range(seq) == {seq[j] : j \in 1..Len(seq)}

\* d holds a number under key.
HasNum(d, key) == IsDict(d) /\ key \in DOMAIN d.m /\ d.m[key].t = "num"

\* d is a dict without the key.
Lacks(d, key) == IsDict(d) /\ key \notin DOMAIN d.m

Distance(d, key, e) == Abs(d.m[key].n - e)

\* The dict under key, the empty dict when the key is missing.
Sub(d, key) == dict_get(d, key, EmptyObj)

\* d with every key of `keys` it lacks set to the number 0.
ZeroFill(d, keys) ==
    Obj([k \in DOMAIN d.m \cup keys |-> IF k \in DOMAIN d.m THEN d.m[k] ELSE Num(0)])

\* d with key set to v.
With(d, key, v) ==
    Obj([k \in DOMAIN d.m \cup {key} |-> IF k = key THEN v ELSE d.m[k]])

\* d without the keys of `keys`.
Without(d, keys) == Obj([k \in DOMAIN d.m \ keys |-> d.m[k]])

TopKeys1A == {"total_fat_g", "total_carbohydrates_g"}
TopKeys2A == {"calculated_total_cal"}

-----------------------------------------------------------------------------
(* C1.  Parse failure.                                                     *)

\* C1: whatever the prompt, a call of _score_response on a text that does
\* not parse as JSON returns (raises nothing) and returns accuracy,
\* reasoning, completeness, practical and total all equal to 0.
C1_UnparseableScoresZero ==
    (call.made /\ ~Parses(call.text)) =>
        /\ ~Raised(call.out)
        /\ \A f \in {"accuracy", "reasoning", "completeness", "practical", "total"} :
              call.out.value[f] = 0

\* A correct answer inside a Markdown fence, scored 0 on prompt 3A.
C1_Witness ==
    /\ ReturnedOn("3A")
    /\ call.text = FencedText(Perfect(call.prompt))
    /\ call.out.value = AllScores(0)

-----------------------------------------------------------------------------
(* C2.  Type mismatches in a response that parses.                         *)

\* C2: whatever the prompt, a call of _score_response on a text that parses
\* as JSON raises nothing: a parsed value that is not an object, or a field
\* of the wrong type, costs points and never ends the call.
C2_ParsedResponseNeverRaises ==
    (call.made /\ Parses(call.text)) => ~Raised(call.out)

\* C2, in run_evaluation: no response makes the run end with an exception.
C2_RunNeverRaises == pc # "raised"

-----------------------------------------------------------------------------
(* C3.  Fetch failures.                                                    *)

ScoreFields == {"accuracy_score", "reasoning_score", "completeness_score",
                "practical_score", "total_score"}

\* The recorded response is the "Error: ..." text of a failed fetch.
FetchFailed(r) == r.gpt_response.kind = "error"

\* run_evaluation is not running: it was never called, it returned or it
\* raised.
NotRunning == pc \in {"idle", "raised"}

\* C3: a failed fetch reaches the scorer as a text that starts with the
\* error marker, its prompt is recorded with total and all four sub-scores
\* 0, and a run in which fetches failed still ends with every prompt of the
\* catalog recorded.
C3_FetchFailureKeepsRunGoing ==
    /\ \A k \in 1..Len(results) :
          FetchFailed(results[k]) => \A f \in ScoreFields : results[k][f] = 0
    /\ (NotRunning /\ \E k \in 1..Len(results) : FetchFailed(results[k])) =>
          Len(results) = runs * NumPrompts

\* The part of C3 the code keeps: a failed fetch never raises, is scored 0
\* on every count and is appended, and the loop goes on to the delay.
C3_FailedFetchIsRecordedAsZero ==
    [][ /\ (pc = "query" /\ pc' # pc) => pc' = "score"
        /\ (pc = "score" /\ gpt_response.kind = "error") =>
              (pc' = "append" /\ scores' = AllScores(0))
        /\ (pc = "append" /\ gpt_response.kind = "error") =>
              (/\ pc' = "sleep"
               /\ Len(results') = Len(results) + 1
               /\ FetchFailed(results'[Len(results')])) ]_vars

-----------------------------------------------------------------------------
(* C4.  One prompt at a time, one result per prompt.                       *)

\* C4: when run_evaluation is not running, every call made so far has
\* appended one result per catalog prompt, and the results stand in
\* catalog order, call after call.
C4_EachCallAppendsOnePerPrompt ==
    /\ NotRunning => Len(results) = runs * NumPrompts
    /\ \A k \in 1..Len(results) :
          results[k].prompt_id = evaluation_prompts[((k - 1) % NumPrompts) + 1].id

\* The part of C4 the code keeps: the steps of one prompt follow each other
\* as fetch, score, append, delay; only the append step changes the result
\* list, by adding the current prompt's result after the entries it holds;
\* the next prompt is the next of the catalog.
C4_SequentialAppendOnly ==
    [][ /\ pc' # pc =>
              \/ pc = "idle" /\ pc' = "query" /\ idx' = 1
              \/ pc = "raised" /\ pc' = "query" /\ idx' = 1
              \/ pc = "query" /\ pc' = "score" /\ idx' = idx
              \/ pc = "score" /\ pc' \in {"append", "raised"}
              \/ pc = "append" /\ pc' = "sleep" /\ idx' = idx
              \/ pc = "sleep" /\ pc' = "query" /\ idx' = idx + 1
              \/ pc = "sleep" /\ pc' = "idle" /\ idx = NumPrompts
        /\ results' # results =>
              /\ pc = "append"
              /\ Len(results') = Len(results) + 1
              /\ SubSeq(results', 1, Len(results)) = results
              /\ results'[Len(results')].prompt_id = evaluation_prompts[idx].id
        /\ pc = "sleep" => slept' = slept + 1 ]_vars

-----------------------------------------------------------------------------
(* C5.  The range of the scores.                                           *)

\* C5: in every reachable state, each of the five scores of every result
\* in the result list lies between 0 and 100.
C5_ScoresInRange ==
    \A k \in 1..Len(results) :
        \A f \in ScoreFields : results[k][f] >= 0 /\ results[k][f] <= 100 * One

\* A result list holding a zero, a partial and a full score.
C5_Witness ==
    /\ \E k \in 1..Len(results) : results[k].total_score = 0
    /\ \E k \in 1..Len(results) :
          results[k].total_score > 0 /\ results[k].total_score < 100 * One
    /\ \E k \in 1..Len(results) : results[k].total_score = 100 * One

-----------------------------------------------------------------------------
(* C6.  The tolerance boundary.                                            *)

CarbFields == {"net_carbs", "fiber", "total"}
MacroFields == {"carbohydrates_cal", "protein_cal", "fat_cal"}

\* The criteria of prompt 1A that hold a number exactly TolFactual away
\* from the expected value.
OnBoundary1A(d, e) ==
    {k \in TopKeys1A : HasNum(d, k) /\ Distance(d, k, e[k]) = TolFactual}
        \cup (IF \E k \in CarbFields :
                     /\ HasNum(Sub(d, "carb_calculation"), k)
                     /\ Distance(Sub(d, "carb_calculation"), k,
                                 e.carb_calculation[k]) = TolFactual
              THEN {"carb_calculation"} ELSE {})

\* The criteria of prompt 1A all of whose numbers are given and strictly
\* less than TolFactual away from the expected value.
Inside1A(d, e) ==
    {k \in TopKeys1A : HasNum(d, k) /\ Distance(d, k, e[k]) < TolFactual}
        \cup (IF \A k \in CarbFields :
                     /\ HasNum(Sub(d, "carb_calculation"), k)
                     /\ Distance(Sub(d, "carb_calculation"), k,
                                 e.carb_calculation[k]) < TolFactual
              THEN {"carb_calculation"} ELSE {})

OnBoundary2A(d, e) ==
    {k \in TopKeys2A : HasNum(d, k) /\ Distance(d, k, e[k]) = TolMath}
        \cup {k \in MacroFields :
                 /\ HasNum(Sub(d, "calculations"), k)
                 /\ Distance(Sub(d, "calculations"), k, e.calculations[k]) = TolMath}

Inside2A(d, e) ==
    {k \in TopKeys2A : HasNum(d, k) /\ Distance(d, k, e[k]) < TolMath}
        \cup {k \in MacroFields :
                 /\ HasNum(Sub(d, "calculations"), k)
                 /\ Distance(Sub(d, "calculations"), k, e.calculations[k]) < TolMath}

\* `points` of `of` points as a score.
PointsOf(points, of) == (points * 100 * One) \div of

-----------------------------------------------------------------------------
(* C7.  Missing fields.                                                    *)

\* The criteria of prompt 1A with a scored field the response lacks.
Missing1A(d) ==
    {k \in TopKeys1A : Lacks(d, k)}
        \cup (IF \E k \in CarbFields : Lacks(Sub(d, "carb_calculation"), k)
              THEN {"carb_calculation"} ELSE {})

Missing2A(d) ==
    {k \in TopKeys2A : Lacks(d, k)}
        \cup {k \in MacroFields : Lacks(Sub(d, "calculations"), k)}

MissingFar1A(d, e) ==
    {k \in TopKeys1A : Lacks(d, k) /\ Abs(e[k]) >= TolFactual}
        \cup (IF \E k \in CarbFields :
                     /\ Lacks(Sub(d, "carb_calculation"), k)
                     /\ Abs(e.carb_calculation[k]) >= TolFactual
              THEN {"carb_calculation"} ELSE {})

MissingFar2A(d, e) ==
    {k \in TopKeys2A : Lacks(d, k) /\ Abs(e[k]) >= TolMath}
        \cup {k \in MacroFields :
                 Lacks(Sub(d, "calculations"), k) /\ Abs(e.calculations[k]) >= TolMath}

\* The response with every missing scored field set to the number 0.
ZeroFilled1A(d) ==
    With(ZeroFill(d, TopKeys1A), "carb_calculation",
         ZeroFill(Sub(d, "carb_calculation"), CarbFields))

ZeroFilled2A(d) ==
    With(ZeroFill(d, TopKeys2A), "calculations",
         ZeroFill(Sub(d, "calculations"), MacroFields))

-----------------------------------------------------------------------------
(* C8.  The rubric of prompt 1A.                                           *)

\* d holds under key a number within tol of e, a missing key counting as 0.
Near(d, key, e, tol) ==
    LET v == dict_get(d, key, Num(0))
    IN  IsNumber(v) /\ Abs(NumVal(v) - e) < tol

Earned1A(d, e) ==
    {k \in TopKeys1A : Near(d, k, e[k], TolFactual)}
        \cup (IF \A k \in CarbFields :
                     Near(Sub(d, "carb_calculation"), k, e.carb_calculation[k], TolFactual)
              THEN {"carb_calculation"} ELSE {})

\* C8: a returned score of prompt 1A is (points / 3) x 100, with one point
\* for total_fat_g, one for total_carbohydrates_g and one for net_carbs,
\* fiber and total all three within 0.01 of the expected values; the
\* expected answer itself scores 100.
C8_FactualRubric ==
    (ReturnedOn("1A") /\ Parses(call.text)) =>
        /\ call.out.value =
              AllScores(PointsOf(Cardinality(Earned1A(CallDoc, CallExpected)), 3))
        /\ CallDoc = Perfect(call.prompt) => CallTotal = 100 * One

\* Fat and carbohydrates right, net_carbs and fiber right, total off by
\* the tolerance: 2 of 3 points.
C8_Witness ==
    /\ ReturnedOn("1A") /\ Parses(call.text)
    /\ Earned1A(CallDoc, CallExpected) = TopKeys1A
    /\ Near(Sub(CallDoc, "carb_calculation"), "net_carbs",
            CallExpected.carb_calculation.net_carbs, TolFactual)
    /\ Near(Sub(CallDoc, "carb_calculation"), "fiber",
            CallExpected.carb_calculation.fiber, TolFactual)
    /\ HasNum(Sub(CallDoc, "carb_calculation"), "total")
    /\ CallTotal = PointsOf(2, 3)

-----------------------------------------------------------------------------
(* C9.  The rubric of prompt 2A.                                           *)

Earned2A(d, e) ==
    {k \in TopKeys2A : Near(d, k, e[k], TolMath)}
        \cup {k \in MacroFields :
                 Near(Sub(d, "calculations"), k, e.calculations[k], TolMath)}

\* The response without the fields the rubric does not score.
Unscored2ARemoved(d) ==
    LET top == Without(d, {"given_energy_value", "comparison"})
    IN  IF "calculations" \in DOMAIN d.m /\ IsDict(d.m.calculations)
        THEN With(top, "calculations", Without(d.m.calculations, {"alcohol_cal"}))
        ELSE top

\* C9: a returned score of prompt 2A is 25 times the number of criteria
\* that pass among carbohydrates_cal, protein_cal, fat_cal and
\* calculated_total_cal, each judged on its own within 0.1; alcohol_cal,
\* given_energy_value and comparison do not change it.
C9_MathRubric ==
    (ReturnedOn("2A") /\ Parses(call.text)) =>
        /\ call.out.value =
              AllScores(25 * One * Cardinality(Earned2A(CallDoc, CallExpected)))
        /\ call.out = _score_response(call.prompt,
                                      JsonText(Unscored2ARemoved(CallDoc)))

\* Only the total is given, and right: 25, with no macronutrient term.
C9_Witness ==
    /\ ReturnedOn("2A") /\ Parses(call.text)
    /\ Lacks(CallDoc, "calculations")
    /\ Earned2A(CallDoc, CallExpected) = {"calculated_total_cal"}
    /\ "given_energy_value" \in DOMAIN CallDoc.m
    /\ CallTotal = 25 * One

-----------------------------------------------------------------------------
(* C10.  The rubric of prompt 3A.                                          *)

ConditionNames == {"type_2_diabetes", "high_blood_pressure", "high_cholesterol"}

\* The conditions whose entry is an object whose suitability is the
\* expected label.
Matches3A(d, e) ==
    {c \in ConditionNames :
        /\ c \in DOMAIN Sub(d, "evaluations").m
        /\ IsDict(Sub(d, "evaluations").m[c])
        /\ "suitability" \in DOMAIN Sub(d, "evaluations").m[c].m
        /\ Sub(d, "evaluations").m[c].m.suitability = Str(e.evaluations[c].suitability)}

Unscored3ARemoved(d) ==
    IF "evaluations" \in DOMAIN d.m /\ IsDict(d.m.evaluations)
    THEN With(d, "evaluations",
              Obj([c \in DOMAIN d.m.evaluations.m |->
                      IF IsDict(d.m.evaluations.m[c])
                      THEN Without(d.m.evaluations.m[c],
                                   {"key_concerns", "specific_values"})
                      ELSE d.m.evaluations.m[c]]))
    ELSE d

\* C10: a returned score of prompt 3A is (matches / 3) x 100, matches
\* counting the conditions whose suitability equals the expected label
\* exactly; a missing condition or label is no match, and key_concerns and
\* specific_values do not change the score.
C10_HealthRubric ==
    (ReturnedOn("3A") /\ Parses(call.text)) =>
        /\ call.out.value =
              AllScores(PointsOf(Cardinality(Matches3A(CallDoc, CallExpected)), 3))
        /\ call.out = _score_response(call.prompt,
                                      JsonText(Unscored3ARemoved(CallDoc)))

\* One condition labelled "Poor", one missing, one matching with its
\* key_concerns given: 1 of 3 points.
C10_Witness ==
    /\ ReturnedOn("3A") /\ Parses(call.text)
    /\ Lacks(Sub(CallDoc, "evaluations"), "high_blood_pressure")
    /\ "type_2_diabetes" \in DOMAIN Sub(CallDoc, "evaluations").m
    /\ Sub(CallDoc, "evaluations").m.type_2_diabetes
          = Obj([suitability |-> Str("Poor")])
    /\ Matches3A(CallDoc, CallExpected) = {"high_cholesterol"}
    /\ "key_concerns" \in DOMAIN Sub(CallDoc, "evaluations").m.high_cholesterol.m
    /\ CallTotal = PointsOf(1, 3)


-----------------------------------------------------------------------------
(* C11.  The rubric of prompt 4A.                                          *)

\* The entries of the errors_found list of d, none when d has no list.
ErrorsList(d) ==
    IF "errors_found" \in DOMAIN d.m /\ d.m.errors_found.t = "list"
    THEN d.m.errors_found.items ELSE <<>>

\* The field names the entries of d's errors_found list carry.
FieldNames(d) ==
    {x.m.field : x \in {y \in Range(ErrorsList(d)) : IsDict(y) /\ "field" \in DOMAIN y.m}}

\* The points of prompt 4A: the count, "satFat" named, "sodium" named.
Earned4A(d, e) ==
    (IF /\ "total_errors" \in DOMAIN d.m
        /\ d.m.total_errors.t = "num"
        /\ d.m.total_errors.n = e.total_errors
     THEN {"total_errors"} ELSE {})
        \cup {f \in {"satFat", "sodium"} : Str(f) \in FieldNames(d)}

\* Entries that name a field other than satFat and sodium.
OtherEntries ==
    { Obj([field |-> Str("potassium")]),
      Obj([field |-> Str("energy"), issue |-> Str("looks high")]) }

\* d with the entries of `before` put in front of its errors_found list
\* and those of `after` behind it.
Extended(d, before, after) ==
    With(d, "errors_found", List(before \o ErrorsList(d) \o after))

\* C11: a returned score of prompt 4A is (points / 3) x 100, one point for
\* total_errors equal to the expected count, one for "satFat" and one for
\* "sodium" among the field names of errors_found; further entries naming
\* other fields, in front or behind, repeated or not, leave the score as
\* it is when total_errors is unchanged.
C11_ErrorRubric ==
    (ReturnedOn("4A") /\ Parses(call.text)) =>
        /\ call.out.value =
              AllScores(PointsOf(Cardinality(Earned4A(CallDoc, CallExpected)), 3))
        /\ CallDoc = Perfect(call.prompt) => CallTotal = 100 * One
        /\ ("errors_found" \in DOMAIN CallDoc.m /\ CallDoc.m.errors_found.t = "list") =>
              \A before, after \in SeqsUpTo(OtherEntries, 2) :
                 LET more == _score_response(call.prompt,
                                             JsonText(Extended(CallDoc, before, after)))
                 IN  ~Raised(more) /\ more.value.total >= CallTotal

\* The count is right, "satFat" is named twice and "sodium" not at all:
\* 2 of 3 points.
C11_Witness ==
    /\ ReturnedOn("4A") /\ Parses(call.text)
    /\ Len(ErrorsList(CallDoc)) = 2
    /\ FieldNames(CallDoc) = {Str("satFat")}
    /\ Earned4A(CallDoc, CallExpected) = {"total_errors", "satFat"}
    /\ CallTotal = PointsOf(2, 3)


-----------------------------------------------------------------------------
(* C12.  The report.                                                       *)

\* C12: whenever generate_report returns on the results of run_evaluation,
\* an empty result list gives the "No results available" sentinel and no
\* statistic, and a non-empty one gives a report whose prompt count is the
\* length of the list and whose worst, average and best total scores
\* satisfy worst <= average <= best.
C12_ReportStatistics ==
    [][(report' # report /\ report'.made) =>
          IF results = <<>>
          THEN report' = [made |-> TRUE, text |-> "No results available"]
          ELSE /\ report'.total_prompts = Len(results)
               /\ report'.worst <= report'.average
               /\ report'.average <= report'.best
               /\ \A j \in 1..Len(results) :
                     /\ report'.worst <= report'.details[j].score
                     /\ report'.details[j].score <= report'.best]_vars

\* A report over the four results of a run whose scores differ.
C12_Witness ==
    /\ report.made
    /\ "total_prompts" \in DOMAIN report
    /\ report.total_prompts = NumPrompts
    /\ Len(results) = NumPrompts
    /\ report.worst < report.average
    /\ report.average < report.best


-----------------------------------------------------------------------------
(* C13.  Scoring is a function of its arguments.                           *)

\* The scores a result records, as the dict _score_response returned.
RecordedScores(r) ==
    [accuracy |-> r.accuracy_score, reasoning |-> r.reasoning_score,
     completeness |-> r.completeness_score, practical |-> r.practical_score,
     total |-> r.total_score]

\* Scoring the recorded text of r again, now, on the catalog's prompt,
\* returns the scores r records.
RescoresTheSame(r) ==
    \E k \in 1..NumPrompts :
        /\ evaluation_prompts[k].id = r.prompt_id
        /\ evaluation_prompts[k].expected_answer = r.expected_answer
        /\ _score_response(evaluation_prompts[k], r.gpt_response)
              = Ret(RecordedScores(r))

-----------------------------------------------------------------------------
(* C14.  The selection of the three foods.                                 *)

\* The patterns of the three selections with their fallback indices.
Selections ==
    { [pattern |-> <<"Banana">>, fallback |-> 0],
      [pattern |-> <<"Rump", "Steak">>, fallback |-> 4],
      [pattern |-> <<"Cookie", "Dough">>, fallback |-> 3] }

Matching(fs, pattern) == {r \in 1..Len(fs) : Contains(fs[r].name, pattern)}

\* The record the selection is to give: the first match, the record at
\* the fallback index when nothing matches.
Chosen(fs, sel) ==
    IF Matching(fs, sel.pattern) # {}
    THEN fs[CHOOSE r \in Matching(fs, sel.pattern) :
                \A q \in Matching(fs, sel.pattern) : r <= q]
    ELSE fs[sel.fallback + 1]

\* The selections that need their fallback record and do not have it.
FallbackMissing(fs) ==
    {sel \in Selections : Matching(fs, sel.pattern) = {} /\ Len(fs) <= sel.fallback}

\* __init__ was called on a data file that exists.
Loaded == pc \notin {"new", "FileNotFoundError"}

\* The expected answers are those of the records Chosen names.
BuiltFromChosen ==
    LET banana == Chosen(foods, [pattern |-> <<"Banana">>, fallback |-> 0])
        steak == Chosen(foods, [pattern |-> <<"Rump", "Steak">>, fallback |-> 4])
        processed == Chosen(foods, [pattern |-> <<"Cookie", "Dough">>, fallback |-> 3])
    IN  /\ evaluation_prompts[1].expected_answer.total_fat_g = banana.nutrients.fat
        /\ evaluation_prompts[1].expected_answer.carb_calculation.net_carbs
              = banana.nutrients.netCarbs
        /\ evaluation_prompts[2].expected_answer.given_energy_value
              = banana.nutrients.energy
        /\ evaluation_prompts[3].expected_answer.evaluations.type_2_diabetes
              .specific_values.sugar_g = processed.nutrients.sugar
        /\ evaluation_prompts[4].expected_answer.errors_found[1].issue[3]
              = steak.nutrients.fat

\* C14: the catalog is built from the first record that matches each of
\* "Banana", "Rump Steak" and "Cookie Dough", and the records at the
\* fallback indices 0, 4 and 3 are consulted only for a selection nothing
\* matches: a data file in which every selection that needs its fallback
\* record has it builds the catalog.
C14_FallbackOnlyWhenNoMatch ==
    (Loaded /\ FallbackMissing(foods) = {}) => (pc = "idle" /\ BuiltFromChosen)

\* What holds of the selection: a catalog that was built is built from
\* the first matches, or from the fallback records where nothing matches.
C14_BuiltCatalogUsesFirstMatch ==
    (Loaded /\ pc = "idle") => BuiltFromChosen


-----------------------------------------------------------------------------
(* C15.  The expected labels of prompt 3A.                                 *)

\* The guidelines of the 3A prompt (line 243): the nutrient each condition
\* is judged on and the value above which the food is "poor" for it.
Guidelines ==
    [type_2_diabetes |-> [nutrient |-> "sugar", above |-> 15 * One],
     high_blood_pressure |-> [nutrient |-> "sodium", above |-> 400 * One],
     high_cholesterol |-> [nutrient |-> "satFat", above |-> 5 * One]]

\* C15: in a built catalog the expected suitability of each condition of
\* prompt 3A follows the selected record: "poor" exactly when the
\* record's sugar is above 15, its sodium above 400, its satFat above 5.
C15_LabelsFollowThresholds ==
    pc = "idle" =>
        LET processed == Chosen(foods, [pattern |-> <<"Cookie", "Dough">>, fallback |-> 3])
        IN  \A c \in DOMAIN Guidelines :
               (evaluation_prompts[3].expected_answer.evaluations[c].suitability = "poor")
                  <=> (processed.nutrients[Guidelines[c].nutrient] > Guidelines[c].above)

-----------------------------------------------------------------------------
(* C16.  The expected numbers of prompts 1A and 2A.                        *)

\* The value of a nutrient in the source row a record was loaded from: the
\* number of its cell, 0 for a cell that is empty or not a number.
SourceValue(food, k) ==
    LET row == CHOOSE x \in BuildRows : x.name = food.name
    IN  IF row.cells[k].raw = "number" THEN row.cells[k].v ELSE 0

=============================================================================
